---------------------------- MODULE Spec2Model ----------------------------
(***************************************************************************)
(* A model of skald: the multinomial reputation module                     *)
(* (src/reputation/reputation.py), the TruthFinder consolidation           *)
(* (src/consolidation/truthfinderV2.py), the per-object orchestration      *)
(* (src/skald.py) and the request-level workload manager (src/wm.py).      *)
(*                                                                         *)
(* Real numbers of the reputation module are exact rationals <<n, d>>.     *)
(* A Python list of numbers carries, beside its values, the numpy dtype    *)
(* np.array() infers for it ("int" when every element is a Python int,     *)
(* "float" otherwise): in-place numpy arithmetic depends on it.            *)
(***************************************************************************)
EXTENDS Integers, Sequences, FiniteSets, TLC

\* ------------------------------------------------------------------------
\* Bounds of the model
\* ------------------------------------------------------------------------
\* largest number of reputation levels k explored (k ranges over 2..MaxK)
MaxK == 4
\* ratings the store accumulates at most (lf = 1 lets them grow for ever),
\* and longest chain of stateless updates fed back by the caller
MaxUpdates == 2

\* ------------------------------------------------------------------------
\* Exact rational arithmetic
\* ------------------------------------------------------------------------
Abs(x) == IF x < 0 THEN -x ELSE x

RECURSIVE GCD(_, _)
GCD(a, b) == IF b = 0 THEN a ELSE GCD(b, a % b)

\* the normal form of n/d (d # 0): positive denominator, lowest terms
Rat(n, d) ==
    LET g == GCD(Abs(n), Abs(d))
        s == IF d < 0 THEN -1 ELSE 1
    IN  <<(s * n) \div g, (s * d) \div g>>

RInt(n) == <<n, 1>>
RZero == <<0, 1>>
ROne == <<1, 1>>
RHalf == <<1, 2>>
RAdd(x, y) == Rat(x[1] * y[2] + y[1] * x[2], x[2] * y[2])
RSub(x, y) == Rat(x[1] * y[2] - y[1] * x[2], x[2] * y[2])
RMul(x, y) == Rat(x[1] * y[1], x[2] * y[2])
RDiv(x, y) == Rat(x[1] * y[2], x[2] * y[1])
RLt(x, y) == x[1] * y[2] < y[1] * x[2]
RLe(x, y) == x[1] * y[2] <= y[1] * x[2]

RECURSIVE RSum(_)
RSum(v) == IF v = <<>> THEN RZero ELSE RAdd(v[1], RSum(Tail(v)))

\* np.dot of two vectors of the same length
RECURSIVE RDot(_, _)
RDot(v, w) ==
    IF v = <<>> THEN RZero ELSE RAdd(RMul(v[1], w[1]), RDot(Tail(v), Tail(w)))

\* ------------------------------------------------------------------------
\* Fixed-point arithmetic for the floating-point values of TruthFinder.
\* A value x is held as the integer nearest to x * Scale; log and exp are
\* evaluated by range reduction and a truncated series, accurate to a few
\* units of 1/Scale on the values the model reaches.
\* ------------------------------------------------------------------------
Scale == 10000
\* ln 2 in units of 1/Scale
Ln2 == 6931

\* the fixed-point value nearest to the rational r
ToFix(r) == (2 * r[1] * Scale + r[2]) \div (2 * r[2])

\* x * r for a fixed-point x and a rational r, rounded to nearest
FMulRat(x, r) == (2 * x * r[1] + r[2]) \div (2 * r[2])

\* x * y for two fixed-point values, rounded to nearest
FMul(x, y) == (2 * x * y + Scale) \div (2 * Scale)

\* math.log(y / Scale) for a fixed-point y > 0, in units of 1/Scale:
\* y is doubled or halved into [0.7, 1.4) (each step worth ln 2), then
\* ln y = 2 * atanh((y - 1) / (y + 1)) by its series.
RECURSIVE LnFix(_)
LnFix(y) ==
    IF 10 * y < 7 * Scale THEN LnFix(2 * y) - Ln2
    ELSE IF 10 * y >= 14 * Scale THEN LnFix((y + 1) \div 2) + Ln2
    ELSE LET z == ((y - Scale) * Scale) \div (y + Scale)
             z2 == FMul(z, z)
             z3 == FMul(z2, z)
             z5 == FMul(z3, z2)
             z7 == FMul(z5, z2)
         IN  2 * z + (2 * z3) \div 3 + (2 * z5) \div 5 + (2 * z7) \div 7

\* math.exp(-x / Scale) for a fixed-point x >= 0, in units of 1/Scale:
\* halved once per ln 2 in x, then the Taylor series of exp(-r), r < ln 2.
RECURSIVE ExpNegFix(_)
ExpNegFix(x) ==
    IF x >= Ln2 THEN (ExpNegFix(x - Ln2) + 1) \div 2
    ELSE LET x2 == FMul(x, x)
             x3 == FMul(x2, x)
             x4 == FMul(x3, x)
             x5 == FMul(x4, x)
             x6 == FMul(x5, x)
         IN  Scale - x + x2 \div 2 - x3 \div 6 + x4 \div 24 - x5 \div 120
               + x6 \div 720

\* ------------------------------------------------------------------------
\* Inputs
\* ------------------------------------------------------------------------
SourceIds == {"S1", "S2"}

\* the values of the longevity factor lf explored, in (0, 1]
LfValues == {ROne, RHalf}

\* ------------------------------------------------------------------------
\* State
\* ------------------------------------------------------------------------
VARIABLES
    k,          \* number of reputation levels (env K)
    lf,         \* longevity factor (env LF), a rational
    statefulEnv,\* the text of env STATEFUL
    dampening,  \* TruthFinder dampening factor (env DAMPENING), a rational
    influence,  \* TruthFinder influence of related facts (env INFLUENCE)
    store,      \* the mongo collection db.skald: sourceId -> document
    last,       \* the last call made and what it returned
    dropped,    \* the sources whose document a clear_reputation has dropped
    updating,   \* the update_reputation each concurrent request is in
    req,        \* the request WorkloadManager.run is working on
    reply,      \* what the last request returned or raised
    atStart,    \* the store as it was when the last request started
    lastObj,    \* the last call of Skald.consolidate and its outcome
    lastReq,    \* the objects and sources of the last request
    nReq        \* the number of requests and direct calls made

cfgVars == <<k, lf, statefulEnv, dampening, influence>>
repVars == <<store, last, dropped>>
reqVars == <<req, reply, atStart, lastObj, lastReq, nReq>>
vars == <<k, lf, statefulEnv, dampening, influence, store, last, dropped,
          updating,
          req, reply, atStart, lastObj, lastReq, nReq>>

\* WorkloadManager.__init__: self.stateful
Lower(text) == IF text = "False" THEN "false" ELSE text
stateful == Lower(statefulEnv) = "true"

\* ------------------------------------------------------------------------
\* Source records.  isNone marks Python's None standing where a record is
\* expected; dtype is the numpy dtype of np.array(ratings).
\* ------------------------------------------------------------------------
NoneRec ==
    [isNone |-> TRUE, sourceId |-> "", reputation |-> RZero,
     probabilities |-> <<>>, ratings |-> <<>>, dtype |-> "int"]

SourceRec(sid, rep, probs, ratings, dt) ==
    [isNone |-> FALSE, sourceId |-> sid, reputation |-> rep,
     probabilities |-> probs, ratings |-> ratings, dtype |-> dt]

\* Reputation.__init__: self.a, the base rate, and self.pv, the point values
BaseRate(kk) == [i \in 1..kk |-> Rat(1, kk)]
PointValues(kk) == [i \in 1..kk |-> Rat(i - 1, kk - 1)]

\* calculate_score without the a-priori term C * a in the numerator
calculate_score_NoPrior(R) ==
    LET acs == RSum(R)
        den == RAdd(RInt(k), acs)
    IN  [i \in 1..Len(R) |-> RDiv(R[i], den)]

\* Reputation.calculate_score, with C = k (Skald passes c = self.k)
calculate_score(R) ==
    LET acs == RSum(R)
        den == RAdd(RInt(k), acs)
    IN  [i \in 1..Len(R) |-> RDiv(RAdd(R[i], RMul(RInt(k), BaseRate(k)[i])), den)]

\* the point value of the first most probable level
point_estimate_MostLikely(S) ==
    PointValues(k)[CHOOSE i \in 1..Len(S) :
                      /\ \A j \in 1..Len(S) : RLe(S[j], S[i])
                      /\ \A j \in 1..(i - 1) : RLt(S[j], S[i])]

\* Reputation.point_estimate
point_estimate(S) == RDot(S, PointValues(k))

\* a default document whose reputation is the lowest level, not the
\* point estimate of the uniform distribution
FreshRecord_ZeroReputation(sid) ==
    SourceRec(sid, RZero,
              [i \in 1..k |-> Rat(1, k)], [i \in 1..k |-> RZero], "int")

\* the document get_reputation inserts for an unseen source ($setOnInsert)
FreshRecord(sid) ==
    SourceRec(sid, point_estimate([i \in 1..k |-> Rat(1, k)]),
              [i \in 1..k |-> Rat(1, k)], [i \in 1..k |-> RZero], "int")

\* a one-hot rating of length n, hot at level index idx (0-based)
OneHot(n, idx) == [i \in 1..n |-> IF i = idx + 1 THEN 1 ELSE 0]

\* The body of update_reputation once the source is found: the updated
\* record, or NoneRec when an exception is raised and logged.  R *= lf
\* raises numpy's casting error on an integer array (float64 result into
\* int64 under 'same_kind'); a rating of another length raises as well.
UpdatedRecord(source, rating) ==
    IF source.isNone THEN NoneRec
    ELSE IF Len(rating) # k THEN NoneRec
    ELSE IF RLt(lf, ROne) /\ source.dtype = "int" THEN NoneRec
    ELSE IF Len(rating) # Len(source.ratings) THEN NoneRec
    ELSE LET aged == IF RLt(lf, ROne)
                     THEN [i \in 1..k |-> RMul(source.ratings[i], lf)]
                     ELSE source.ratings
             R == [i \in 1..k |-> RAdd(aged[i], RInt(rating[i]))]
             S == calculate_score(R)
             pe == point_estimate(S)
         IN  SourceRec(source.sourceId, pe, S, R, source.dtype)

\* ------------------------------------------------------------------------
\* TruthFinder (truthfinderV2.py).  A row of the dataframe is a record
\* [source, fact, object, datatype, trustworthiness, fact_confidence];
\* trustworthiness is a rational, fact_confidence a fixed-point value.
\* Categorical facts are strings, continuous facts integers, boolean facts
\* booleans and string facts sequences of characters; object names are
\* sequences of text pieces, so that "address" being part of a name is
\* decided by what the name holds.
\* ------------------------------------------------------------------------
Max(a, b) == IF a >= b THEN a ELSE b
Min(a, b) == IF a <= b THEN a ELSE b

RECURSIVE SumOver(_, _)
\* the sum of f[i] over the finite set I of integers
SumOver(I, f) ==
    IF I = {} THEN 0
    ELSE LET i == CHOOSE x \in I : \A y \in I : x <= y
         IN  f[i] + SumOver(I \ {i}, f)

\* sigmoid(x) = 1 / (1 + math.exp(-x)) for a fixed-point x
sigmoid(x) ==
    IF x >= 0
    THEN LET den == Scale + ExpNegFix(x)
         IN  (2 * Scale * Scale + den) \div (2 * den)
    ELSE LET e == ExpNegFix(-x)
         IN  (2 * Scale * e + Scale + e) \div (2 * (Scale + e))

\* trustworthiness_score = lambda x: -math.log(1 - x); math.log raises
\* ValueError (math domain error) unless 1 - x > 0
TrustScoreDefined(t) == RLt(t, ROne)
trustworthiness_score(t) == -LnFix(Max(1, ToFix(RSub(ROne, t))))

\* continuous_implication(f1, f2); the division raises ZeroDivisionError
\* when max(f1, f2) = 0
ContinuousDefined(f1, f2) == Max(f1, f2) # 0
continuous_implication(f1, f2) ==
    LET max_value == Max(f1, f2)
        distance == Abs(f1 - f2)
    IN  RSub(RMul(RInt(2), RDiv(RInt(distance - max_value),
                                RInt(0 - max_value))), ROne)

categorical_implication(f1, f2) == IF f1 = f2 THEN 1 ELSE -1

\* td.jaro_winkler(s1, s2) on sequences of characters, as a rational:
\* greedy matching within the search range, half the transpositions, and
\* the prefix bonus (weight 0.1, at most 4 characters) above 0.7
RECURSIVE JaroMatch(_, _, _, _)
\* the set of matched pairs <<i, j>>, scanning s1 from position i
JaroMatch(s1, s2, i, used) ==
    IF i > Len(s1) THEN {}
    ELSE LET range == Max(0, Max(Len(s1), Len(s2)) \div 2 - 1)
             cand == {j \in 1..Len(s2) :
                        /\ j >= i - range /\ j <= i + range
                        /\ j \notin used /\ s2[j] = s1[i]}
         IN  IF cand = {} THEN JaroMatch(s1, s2, i + 1, used)
             ELSE LET j == CHOOSE x \in cand : \A y \in cand : x <= y
                  IN  {<<i, j>>} \cup JaroMatch(s1, s2, i + 1, used \cup {j})

\* the Jaro weight of m matches with trans transpositions, and its boost
\* by the common prefix of pre characters
JaroWeight(len1, len2, m, trans) ==
    RDiv(RAdd(RAdd(Rat(m, len1), Rat(m, len2)), Rat(m - trans, m)), RInt(3))

Winkler(weight, pre) ==
    IF RLe(weight, Rat(7, 10)) THEN weight
    ELSE RAdd(weight, RMul(Rat(pre, 10), RSub(ROne, weight)))

\* the transpositions among the matched pairs: matched characters of s1
\* and of s2, each taken in order, that differ, halved
Transpositions(s1, s2, is, js) ==
    Cardinality({i \in is :
        s1[i] # s2[CHOOSE j \in js :
                      Cardinality({x \in js : x < j})
                        = Cardinality({x \in is : x < i})]}) \div 2

JaroOfPairs(s1, s2, pairs) ==
    IF pairs = {} THEN RZero
    ELSE Winkler(
            JaroWeight(Len(s1), Len(s2), Cardinality(pairs),
                       Transpositions(s1, s2, {p[1] : p \in pairs},
                                      {p[2] : p \in pairs})),
            Cardinality({n \in 1..Min(Min(Len(s1), Len(s2)), 4) :
                            \A q \in 1..n : s1[q] = s2[q]}))

jaro_winkler(s1, s2) ==
    IF s1 = s2 THEN ROne
    ELSE IF Len(s1) = 0 \/ Len(s2) = 0 THEN RZero
    ELSE JaroOfPairs(s1, s2, JaroMatch(s1, s2, 1, {}))

string_implication(f1, f2) ==
    RMul(RInt(2), RSub(jaro_winkler(f1, f2), RHalf))

\* the rows of the same object as row i (update_fact_confidence works
\* object by object)
Group(df, i) == {j \in 1..Len(df) : df[j].object = df[i].object}

\* drop_duplicates("fact"): the first row of each distinct fact
FirstOfFact(df, G) ==
    {j \in G : \A h \in G : h < j => df[h].fact # df[j].fact}

\* TruthFinder.confidence_score: per row, the sum of the trustworthiness
\* scores of the rows of its object that state the same fact
confidence_score(df) ==
    [i \in 1..Len(df) |->
        SumOver({j \in Group(df, i) : df[j].fact = df[i].fact},
                [j \in 1..Len(df) |-> trustworthiness_score(df[j].trustworthiness)])]

\* the implication adjusted_confidence_score applies for row1's datatype;
\* a datatype that is none of the three contributes nothing
ImplicationDefined(datatype, f2, f1) ==
    datatype = "continuous" => ContinuousDefined(f2, f1)

Contribution(datatype, conf2, f2, f1) ==
    IF datatype = "continuous"
    THEN FMulRat(conf2, continuous_implication(f2, f1))
    ELSE IF datatype = "string"
    THEN FMulRat(conf2, string_implication(f2, f1))
    ELSE IF datatype = "categorical"
    THEN conf2 * categorical_implication(f2, f1)
    ELSE 0

\* TruthFinder.adjusted_confidence_score, from the confidence scores conf
adjusted_confidence_score(df, conf) ==
    [i \in 1..Len(df) |->
        LET others == {j \in FirstOfFact(df, Group(df, i)) :
                          df[j].fact # df[i].fact}
            sum == SumOver(others,
                     [j \in 1..Len(df) |->
                        IF j \in others
                        THEN Contribution(df[i].datatype, conf[j],
                                          df[j].fact, df[i].fact)
                        ELSE 0])
        IN  FMulRat(sum, influence) + conf[i]]

\* TruthFinder.compute_fact_confidence
compute_fact_confidence(adjusted) ==
    [i \in 1..Len(adjusted) |-> sigmoid(FMulRat(adjusted[i], dampening))]

\* TruthFinder.update_source_trustworthiness: the mean confidence of the
\* rows of each source
update_source_trustworthiness(df) ==
    [i \in 1..Len(df) |->
        LET mine == {j \in 1..Len(df) : df[j].source = df[i].source}
        IN  [df[i] EXCEPT !.trustworthiness =
                Rat(SumOver(mine, [j \in 1..Len(df) |-> df[j].fact_confidence]),
                    Cardinality(mine) * Scale)]]

\* whether an iteration raises: math.log outside its domain, or the
\* division by zero of continuous_implication
IterationDefined(df) ==
    /\ \A i \in 1..Len(df) : TrustScoreDefined(df[i].trustworthiness)
    /\ \A i \in 1..Len(df) :
          \A j \in FirstOfFact(df, Group(df, i)) :
             df[j].fact # df[i].fact =>
                ImplicationDefined(df[i].datatype, df[j].fact, df[i].fact)

\* TruthFinder.iteration
iteration(df) ==
    LET conf == confidence_score(df)
        fc == compute_fact_confidence(adjusted_confidence_score(df, conf))
    IN  update_source_trustworthiness(
            [i \in 1..Len(df) |-> [df[i] EXCEPT !.fact_confidence = fc[i]]])

\* TruthFinder.run(dataframe, max_iterations, threshold): fact_confidence
\* is zeroed and one iteration is performed, whatever max_iterations is
\* (the loop and the test of the change are commented out)
TruthFinderRun(df, max_iterations) ==
    iteration([i \in 1..Len(df) |-> [df[i] EXCEPT !.fact_confidence = 0]])

\* ------------------------------------------------------------------------
\* The operations of the reputation module on the store
\* ------------------------------------------------------------------------
\* before: the record the call found; out: the record it returned
NoCall ==
    [op |-> "none", sid |-> "", idx |-> 0, before |-> NoneRec, ret |-> RZero,
     out |-> NoneRec, applied |-> FALSE, chain |-> 0, args |-> <<>>,
     raised |-> FALSE, input |-> <<>>, table |-> <<>>, threshold |-> RZero]

EmptyStore == [s \in SourceIds |-> NoneRec]

\* the requests that may be served at the same time
Requests == {1, 2}

\* a request that is not inside update_reputation: begun and applied count
\* the calls of update_reputation it has made and the update_one's that
\* have written a record
NoUpdate ==
    [pc |-> "idle", sid |-> "", idx |-> 0, source |-> NoneRec,
     begun |-> 0, applied |-> 0]
NoUpdates == [p \in Requests |-> NoUpdate]

\* the first entry of the list for the source (next(...) of a generator),
\* NoneRec when there is none (StopIteration, caught with the rest)
RECURSIVE FirstEntry(_, _)
FirstEntry(sources, sid) ==
    IF sources = <<>> THEN NoneRec
    ELSE IF sources[1].sourceId = sid THEN sources[1]
    ELSE FirstEntry(Tail(sources), sid)

\* Reputation.update_reputation: the record it works from
RatedSource(st, sources, sid) ==
    IF stateful THEN st[sid] ELSE FirstEntry(sources, sid)

\* Reputation.update_reputation: the store it leaves (update_one, stateful)
StoreAfterUpdate(st, sources, sid, rating) ==
    LET new == UpdatedRecord(RatedSource(st, sources, sid), rating)
    IN  IF stateful /\ ~new.isNone THEN [st EXCEPT ![sid] = new] ELSE st

\* Reputation.update_reputation: what it returns (None when stateful)
OutputOfUpdate(st, sources, sid, rating) ==
    IF stateful THEN NoneRec
    ELSE UpdatedRecord(RatedSource(st, sources, sid), rating)

\* Reputation.get_reputation: find_one_and_update with upsert
StoreAfterGet(st, sid) ==
    IF st[sid].isNone THEN [st EXCEPT ![sid] = FreshRecord(sid)] ELSE st

\* Reputation.clear_reputation: db.skald.drop(), whatever the mode
StoreAfterClear(st) == EmptyStore

\* Reputation.clear_reputation, whatever the mode: the collection is
\* dropped and 1 returned; an exception of the drop is logged and -1
\* returned
Reputation_clear_reputation(st, dropFails) ==
    [ret |-> IF dropFails THEN -1 ELSE 1,
     store |-> IF dropFails THEN st ELSE StoreAfterClear(st)]

\* ------------------------------------------------------------------------
\* Skald (skald.py).
\* The claims argument is [isList, rows]; a row is a record
\* [form, sourceId, object, fact, datatype] whose form tells what Python
\* value it is: "ok" (a dict with the four keys and string sourceId and
\* object), "notdict", "nosourceId", "noobject", "nofact", "nodatatype" (a
\* dict without that key), "sidnotstr", "objnotstr".
\* The sources argument is [isList, items, forms]: items are source records
\* and forms[i] is "ok" or names the check of validate_sources that items[i]
\* does not pass by its Python type ("notdict", "nofields", "sid", "rep",
\* "probs", "ratings").
\* ------------------------------------------------------------------------
NoSources == [isList |-> FALSE, items |-> <<>>, forms |-> <<>>]
SourceList(items) ==
    [isList |-> TRUE, items |-> items, forms |-> [i \in 1..Len(items) |-> "ok"]]

\* Skald.validate_input: datatype is not looked at (its check is commented
\* out) and is no member of fields
validate_input(claims) ==
    /\ claims.isList
    /\ \A i \in 1..Len(claims.rows) :
          claims.rows[i].form \in {"ok", "nodatatype"}

\* validate_sources without the check that every claim's source is in the
\* list
validate_sources_AnySource(claims, sources) ==
    /\ sources.isList
    /\ \A i \in 1..Len(sources.items) :
          /\ sources.forms[i] = "ok"
          /\ Len(sources.items[i].probabilities) = k
          /\ Len(sources.items[i].ratings) = k

\* Skald.validate_sources
validate_sources(claims, sources) ==
    /\ sources.isList
    /\ \A i \in 1..Len(sources.items) :
          /\ sources.forms[i] = "ok"
          /\ Len(sources.items[i].probabilities) = k
          /\ Len(sources.items[i].ratings) = k
    /\ \A i \in 1..Len(claims.rows) :
          \E j \in 1..Len(sources.items) :
             sources.items[j].sourceId = claims.rows[i].sourceId

\* source_dict = {s['sourceId']: s for s in sources}: the last entry of the
\* list for the source
RECURSIVE LastEntry(_, _)
LastEntry(items, sid) ==
    IF items = <<>> THEN NoneRec
    ELSE IF items[Len(items)].sourceId = sid THEN items[Len(items)]
    ELSE LastEntry(SubSeq(items, 1, Len(items) - 1), sid)

\* Skald.build_dataframe: the rows it has built when it stops, which is at
\* the first row without a datatype (KeyError, caught: None is returned)
RowsRead(claims) ==
    LET bad == {i \in 1..Len(claims.rows) : claims.rows[i].form # "ok"}
    IN  IF bad = {} THEN Len(claims.rows)
        ELSE CHOOSE i \in bad : \A j \in bad : i <= j

\* whether build_dataframe returns a dataframe: no row lacks a key and,
\* stateless, source_dict holds every row's source
DataframeBuilt(claims, sources) ==
    /\ \A i \in 1..Len(claims.rows) : claims.rows[i].form = "ok"
    /\ ~stateful =>
          \A i \in 1..Len(claims.rows) :
             ~LastEntry(sources.items, claims.rows[i].sourceId).isNone

RECURSIVE StoreAfterGets(_, _, _)
\* the store after get_reputation for the first n rows (stateful)
StoreAfterGets(st, rows, n) ==
    IF n = 0 THEN st
    ELSE StoreAfterGet(StoreAfterGets(st, rows, n - 1), rows[n].sourceId)

\* get_reputation called for every row whatever the mode
StoreAfterBuild_AnyMode(st, claims) ==
    StoreAfterGets(st, claims.rows, RowsRead(claims))

\* the store build_dataframe leaves
StoreAfterBuild(st, claims) ==
    IF stateful THEN StoreAfterGets(st, claims.rows, RowsRead(claims)) ELSE st

\* the reputation read from the store as it was when the request started
ReputationFor_AtStart(st, sources, sid) ==
    IF stateful THEN StoreAfterGet(atStart, sid)[sid].reputation
    ELSE LastEntry(sources.items, sid).reputation

\* the reputation build_dataframe reads for a row
ReputationFor(st, sources, sid) ==
    IF stateful THEN StoreAfterGet(st, sid)[sid].reputation
    ELSE LastEntry(sources.items, sid).reputation

build_dataframe(st, claims, sources) ==
    [i \in 1..Len(claims.rows) |->
        [source |-> claims.rows[i].sourceId,
         fact |-> claims.rows[i].fact,
         object |-> claims.rows[i].object,
         datatype |-> claims.rows[i].datatype,
         trustworthiness |-> ReputationFor(st, sources, claims.rows[i].sourceId),
         fact_confidence |-> 0]]

\* Skald.calculate_ratings: one rating per row
RatingIndex(conf) ==
    IF conf = Scale THEN k - 1 ELSE (conf * k) \div Scale

calculate_ratings(result) ==
    [i \in 1..Len(result) |->
        [sourceId |-> result[i].source,
         rating |-> OneHot(k, RatingIndex(result[i].fact_confidence))]]

RECURSIVE StoreAfterRatings(_, _, _)
\* the store after update_reputation for every rating, in row order
StoreAfterRatings(st, sources, ratings) ==
    IF ratings = <<>> THEN st
    ELSE StoreAfterRatings(
            StoreAfterUpdate(st, sources.items, ratings[1].sourceId,
                             ratings[1].rating),
            sources, Tail(ratings))

\* updated_sources in stateless mode: what each update_reputation returned
OutputsOfRatings(st, sources, ratings) ==
    [i \in 1..Len(ratings) |->
        OutputOfUpdate(st, sources.items, ratings[i].sourceId,
                       ratings[i].rating)]

\* Skald.get_sources (stateful): the stored record of every claim row
get_sources(st, claims) ==
    [i \in 1..Len(claims.rows) |-> st[claims.rows[i].sourceId]]

\* round(x, 3) of a fixed-point value
Round3(x) == ((x + 5) \div 10) * 10

RECURSIVE SortDesc(_, _)
\* sort_values(by=['fact_confidence'], ascending=False) of the row
\* positions I: highest confidence first, equal ones in row order
SortDesc(df, I) ==
    IF I = {} THEN <<>>
    ELSE LET top == CHOOSE i \in I :
                      \A j \in I :
                         \/ df[i].fact_confidence > df[j].fact_confidence
                         \/ /\ df[i].fact_confidence = df[j].fact_confidence
                            /\ i <= j
         IN  <<top>> \o SortDesc(df, I \ {top})

\* str.removeprefix("address-")
RemovePrefixAddress(name) ==
    IF Len(name) >= 2 /\ name[1] = "address" /\ name[2] = "-"
    THEN SubSeq(name, 3, Len(name)) ELSE name

\* "address" in name
ContainsAddress(name) == \E i \in 1..Len(name) : name[i] = "address"

\* dataframe['object'].unique(): the positions of the first row of each
\* object, in row order
FirstOfObject(df) ==
    {i \in 1..Len(df) : \A h \in 1..(i - 1) : df[h].object # df[i].object}

RECURSIVE Ascending(_)
\* the members of a finite set of integers, lowest first
Ascending(I) ==
    IF I = {} THEN <<>>
    ELSE LET i == CHOOSE x \in I : \A y \in I : x <= y
         IN  <<i>> \o Ascending(I \ {i})

\* the fact as the response carries it: float(fact) for a continuous row
\* (a rational here), bool(fact) for a boolean row, the fact otherwise
CoercedFact(row) ==
    IF row.datatype = "continuous" THEN RInt(row.fact) ELSE row.fact

NoResponse == [isNone |-> TRUE, shape |-> "none", name |-> <<>>, claims |-> <<>>]

\* Skald.build_response; an empty dataframe raises IndexError at iloc[0],
\* which is caught: None is returned
build_response(df) ==
    IF Len(df) = 0 THEN NoResponse
    ELSE IF ContainsAddress(df[1].object)
    THEN LET fields == Ascending(FirstOfObject(df))
             best(i) == SortDesc(df, Group(df, i))[1]
             total == SumOver(FirstOfObject(df),
                        [i \in 1..Len(df) |-> df[best(i)].fact_confidence])
         IN  [isNone |-> FALSE, shape |-> "address", name |-> <<"address">>,
              claims |->
                <<[fact |-> [n \in 1..Len(fields) |->
                               <<RemovePrefixAddress(df[fields[n]].object),
                                 df[best(fields[n])].fact>>],
                   confidence |-> Round3((2 * total + Len(fields))
                                           \div (2 * Len(fields))),
                   sourceId |-> ""]>>]
    ELSE LET order == SortDesc(df, 1..Len(df))
         IN  [isNone |-> FALSE, shape |-> "claims", name |-> df[1].object,
              claims |->
                [n \in 1..Len(df) |->
                    [fact |-> CoercedFact(df[order[n]]),
                     confidence |-> Round3(df[order[n]].fact_confidence),
                     sourceId |-> df[order[n]].source]]]

\* what a call returns or raises: code is the status code of the
\* HTTPException raised, 500 for any other exception, 0 when it returns
Outcome(status, code, detail, response, updated, st) ==
    [status |-> status, code |-> code, detail |-> detail,
     response |-> response, updated |-> updated, store |-> st]

\* Skald.consolidate from the ratings on: every rating is folded into the
\* reputation, the response is built, the updated sources are collected
ConsolidateRated(st1, st2, claims, sources, result, ratings) ==
    Outcome("ok", 0, "", build_response(result),
            IF stateful THEN get_sources(st2, claims)
            ELSE OutputsOfRatings(st1, sources, ratings),
            st2)

\* the store fails during the reads of get_reputation ("get"), during the
\* writes of update_reputation ("update"), or not at all; a failed
\* operation leaves the store as it was
Faults == {"none", "get", "update"}

\* a failed update_one is caught and logged by update_reputation, which
\* returns None: the loop over the ratings goes on
ConsolidateResult(st1, claims, sources, result, ratings, fault) ==
    ConsolidateRated(st1,
                     IF stateful /\ fault = "update" THEN st1
                     ELSE StoreAfterRatings(st1, sources, ratings),
                     claims, sources, result, ratings)

\* Skald.consolidate once the dataframe is built; an exception of the
\* TruthFinder run leaves consolidate as it is
ConsolidateFrame(st1, claims, sources, dataframe, fault) ==
    IF ~IterationDefined(dataframe)
    THEN Outcome("raised", 500,
                 IF \A i \in 1..Len(dataframe) :
                       TrustScoreDefined(dataframe[i].trustworthiness)
                 THEN "ZeroDivisionError" ELSE "ValueError",
                 NoResponse, <<>>, st1)
    ELSE ConsolidateResult(st1, claims, sources, TruthFinderRun(dataframe, 1),
                           calculate_ratings(TruthFinderRun(dataframe, 1)),
                           fault)

\* Skald.consolidate once the input is validated; build_dataframe returns
\* None after a KeyError, and run(None, ...) raises AttributeError; a
\* failed find_one_and_update is caught and logged by get_reputation, which
\* returns None: the trustworthiness column holds None and 1 - x raises
\* TypeError in the TruthFinder run
ConsolidateValid(st, st1, claims, sources, fault) ==
    IF ~DataframeBuilt(claims, sources)
    THEN Outcome("raised", 500, "AttributeError", NoResponse, <<>>, st1)
    ELSE IF stateful /\ fault = "get" /\ claims.rows # <<>>
    THEN Outcome("raised", 500, "TypeError", NoResponse, <<>>, st1)
    ELSE ConsolidateFrame(st1, claims, sources,
                          build_dataframe(st, claims, sources), fault)

\* Skald.consolidate(claims, sources) on the store st
consolidate(st, claims, sources, fault) ==
    IF ~validate_input(claims)
    THEN Outcome("raised", 400, "Invalid input format", NoResponse, <<>>, st)
    ELSE IF ~stateful /\ ~validate_sources(claims, sources)
    THEN Outcome("raised", 400, "Invalid source format", NoResponse, <<>>, st)
    ELSE ConsolidateValid(st,
                          IF stateful /\ fault = "get" THEN st
                          ELSE StoreAfterBuild(st, claims),
                          claims, sources, fault)

\* ------------------------------------------------------------------------
\* WorkloadManager (wm.py) and the API function consolidate (api.py).
\* An object of a request is [name, datatype, claims]; a claim is
\* [sourceId, sidIsStr, fact]; the fact of an address claim is a sequence
\* of fields [field, isNull, value], that of a list claim a sequence of
\* elements.
\* ------------------------------------------------------------------------
ClaimRow(claim, object, fact, datatype) ==
    [form |-> IF claim.sidIsStr THEN "ok" ELSE "sidnotstr",
     sourceId |-> claim.sourceId, object |-> object, fact |-> fact,
     datatype |-> datatype]

\* WorkloadManager.convert_claims: the rows of one claim
ConvertedClaim(obj, claim) ==
    IF obj.datatype = "address"
    THEN LET present == SelectSeq(claim.fact, LAMBDA f : ~f.isNull)
         IN  [i \in 1..Len(present) |->
                ClaimRow(claim, obj.name \o <<"-", present[i].field>>,
                         present[i].value, "string")]
    ELSE IF obj.datatype = "list-string"
    THEN [i \in 1..Len(claim.fact) |->
            ClaimRow(claim, obj.name, claim.fact[i], "string")]
    ELSE IF obj.datatype = "list-categorical"
    THEN [i \in 1..Len(claim.fact) |->
            ClaimRow(claim, obj.name, claim.fact[i], "categorical")]
    ELSE <<ClaimRow(claim, obj.name, claim.fact, obj.datatype)>>

RECURSIVE ConvertedRows(_, _)
ConvertedRows(obj, claims) ==
    IF claims = <<>> THEN <<>>
    ELSE ConvertedClaim(obj, claims[1]) \o ConvertedRows(obj, Tail(claims))

\* WorkloadManager.convert_claims
convert_claims(obj) ==
    [isList |-> TRUE, rows |-> ConvertedRows(obj, obj.claims)]

\* WorkloadManager.convert_sources: the four fields of every source
convert_sources(sources) == SourceList(sources.items)

\* list.remove(x): the list without its first element equal to x
RemoveFirst(list, x) ==
    LET i == CHOOSE n \in 1..Len(list) :
                list[n] = x /\ \A m \in 1..(n - 1) : list[m] # x
    IN  SubSeq(list, 1, i - 1) \o SubSeq(list, i + 1, Len(list))

\* the loop without list.remove: earlier entries of the source are kept
MergeScan_NoRemoval(list, source, i) ==
    [failed |-> source.isNone \/ \E n \in i..Len(list) : list[n].isNone,
     list |-> list]

RECURSIVE MergeScan(_, _, _)
\* the loop "for s in response['sources']" for one updated source, from
\* position i on: the list it leaves, or failed when s or source is None
\* (TypeError); removing during the iteration skips the next element
MergeScan(list, source, i) ==
    IF i > Len(list) THEN [failed |-> FALSE, list |-> list]
    ELSE IF list[i].isNone \/ source.isNone
    THEN [failed |-> TRUE, list |-> list]
    ELSE IF list[i].sourceId = source.sourceId
    THEN MergeScan(RemoveFirst(list, list[i]), source, i + 1)
    ELSE MergeScan(list, source, i + 1)

RECURSIVE MergeSources(_, _)
\* WorkloadManager.run: response["sources"] after the updated sources of
\* one object
MergeSources(list, updated) ==
    IF updated = <<>> THEN [failed |-> FALSE, list |-> list]
    ELSE LET one == MergeScan(list, updated[1], 1)
         IN  IF one.failed THEN one
             ELSE MergeSources(Append(one.list, updated[1]), Tail(updated))

IdleRequest ==
    [pc |-> "idle", objects |-> <<>>, sources |-> NoSources,
     respObjects |-> <<>>, respSources |-> <<>>]

Reply(status, code, detail, objects, sources) ==
    [status |-> status, code |-> code, detail |-> detail,
     objects |-> objects, sources |-> sources, result |-> 0]

NoReply == Reply("none", 0, "", <<>>, <<>>)

NoRequest == [made |-> FALSE, objects |-> <<>>, sources |-> NoSources]

NoObject ==
    [called |-> FALSE, datatype |-> "", name |-> <<>>, inputs |-> <<>>,
     fault |-> "none",
     claims |-> [isList |-> TRUE, rows |-> <<>>],
     sources |-> NoSources, before |-> EmptyStore,
     outcome |-> Outcome("none", 0, "", NoResponse, <<>>, EmptyStore)]

\* ------------------------------------------------------------------------
\* The requests explored
\* ------------------------------------------------------------------------
Claim(sid, fact) == [sourceId |-> sid, sidIsStr |-> TRUE, fact |-> fact]
Object(name, datatype, claims) ==
    [name |-> name, datatype |-> datatype, claims |-> claims]

ObjColor ==
    Object(<<"color">>, "categorical", <<Claim("S1", "red"), Claim("S2", "blue")>>)
ObjTags ==
    Object(<<"tags">>, "list-categorical",
           <<Claim("S1", <<"a", "b">>), Claim("S2", <<"a">>)>>)
ObjEmail ==
    Object(<<"email", "-", "address">>, "categorical",
           <<Claim("S1", "x@a"), Claim("S2", "y@b"), Claim("S2", "y@b")>>)
ObjPrice ==
    Object(<<"price">>, "continuous", <<Claim("S1", 100), Claim("S1", 100)>>)
\* a claim whose sourceId is the number 7
ObjBadSid ==
    Object(<<"size">>, "categorical",
           <<[sourceId |-> "7", sidIsStr |-> FALSE, fact |-> "big"]>>)

\* a field of an Address: its name and its value, a string or null
Field(name, value) == [field |-> name, isNull |-> FALSE, value |-> value]
NullField(name) == [field |-> name, isNull |-> TRUE, value |-> <<>>]

\* two claims on the address of 'hq'; string facts are sequences of
\* characters
HqAddresses ==
    <<Claim("S1", <<Field("street", <<"1", " ", "A">>),
                    NullField("suburb"), Field("city", <<"X">>)>>),
      Claim("S2", <<Field("street", <<"1", " ", "B">>),
                    NullField("suburb"), Field("city", <<"X">>)>>)>>
ObjHq == Object(<<"hq">>, "address", HqAddresses)
\* the same claims on an object that is named 'address'
ObjAddress == Object(<<"address">>, "address", HqAddresses)

\* an object that no source has made a claim on
ObjNotes == Object(<<"notes">>, "string", <<>>)
\* an address whose fields are all null
ObjSite ==
    Object(<<"site">>, "address",
           <<Claim("S1", <<NullField("street"), NullField("city")>>)>>)

ObjectPool ==
    <<ObjColor, ObjTags, ObjEmail, ObjPrice, ObjBadSid, ObjHq, ObjAddress,
      ObjNotes, ObjSite>>

\* the objects that a request holds two of: those of one fact per claim
Paired(i) == ObjectPool[i].datatype \in {"categorical", "continuous"}

\* the object lists of a request, in the order random.shuffle leaves them:
\* one object of the pool, or two different ones of one fact per claim in
\* either order
ObjectOrders ==
    {<<i>> : i \in 1..Len(ObjectPool)}
      \cup {p \in (1..Len(ObjectPool)) \X (1..Len(ObjectPool)) :
               p[1] # p[2] /\ Paired(p[1]) /\ Paired(p[2])}

ObjectList(order) == [n \in 1..Len(order) |-> ObjectPool[order[n]]]

\* a Source of the API: ratings are list[int], reputation a float
ApiSource(sid, rep, n) ==
    SourceRec(sid, rep, [i \in 1..k |-> Rat(1, k)],
              [i \in 1..k |-> IF i = 1 THEN RInt(n) ELSE RZero], "int")

\* the sources of a request: none, both sources, or S1 alone
RequestSources ==
    {NoSources,
     SourceList(<<ApiSource("S1", Rat(9, 10), 1), ApiSource("S2", Rat(1, 10), 0)>>),
     SourceList(<<ApiSource("S1", RHalf, 0)>>)}

\* ------------------------------------------------------------------------
\* Specification SpecRep: the reputation module called directly
\* ------------------------------------------------------------------------
\* records a caller may supply for a source in stateless mode: ratings
\* non-negative and of length k, probabilities and reputation of any value
SuppliedRatings ==
    {[i \in 1..k |-> RZero],
     [i \in 1..k |-> IF i = 1 THEN RInt(2) ELSE RZero]}

SuppliedRecords(sid) ==
    {SourceRec(sid, RHalf,
               IF R[1] = RZero THEN [i \in 1..k |-> Rat(1, k)]
                               ELSE [i \in 1..k |-> RZero],
               R, dt) :
        R \in SuppliedRatings, dt \in {"int", "float"}}

RepInit ==
    /\ k \in 2..MaxK
    /\ lf \in LfValues
    /\ statefulEnv \in {"true", "false"}
    /\ dampening = Rat(1, 10)
    /\ influence = Rat(4, 5)
    /\ store = EmptyStore
    /\ last = NoCall
    /\ dropped = {}
    /\ updating = NoUpdates
    /\ req = IdleRequest
    /\ reply = NoReply
    /\ atStart = EmptyStore
    /\ lastObj = NoObject
    /\ lastReq = NoRequest
    /\ nReq = 0

\* get_reputation is called in stateful mode only (skald.py:261-263)
RepGet(sid) ==
    /\ stateful
    /\ store' = StoreAfterGet(store, sid)
    /\ last' = [NoCall EXCEPT !.op = "get_reputation", !.sid = sid,
                              !.before = store[sid],
                              !.ret = store'[sid].reputation]
    /\ UNCHANGED <<cfgVars, updating, dropped, reqVars>>

\* the ratings the store holds, over all its records
RECURSIVE StoredRatings(_, _)
StoredRatings(st, sids) ==
    IF sids = {} THEN RZero
    ELSE LET s == CHOOSE x \in sids : TRUE
         IN  RAdd(IF st[s].isNone THEN RZero ELSE RSum(st[s].ratings),
                  StoredRatings(st, sids \ {s}))

RepUpdateStateful(sid, idx) ==
    /\ stateful
    /\ RLt(StoredRatings(store, SourceIds), RInt(MaxUpdates))
    /\ store' = StoreAfterUpdate(store, <<>>, sid, OneHot(k, idx))
    /\ last' = [NoCall EXCEPT !.op = "update_reputation", !.sid = sid,
                              !.idx = idx,
                              !.before = store[sid],
                              !.applied = (store'[sid] # store[sid])]
    /\ UNCHANGED <<cfgVars, updating, dropped, reqVars>>

\* stateless: the caller passes a list holding the record the previous
\* call returned, or a record of its own when no call has returned one
RepUpdateStateless(sid, idx) ==
    /\ ~stateful
    /\ \E rec \in IF last.out.isNone THEN SuppliedRecords(sid)
                   ELSE IF last.chain >= MaxUpdates THEN {}
                   ELSE {last.out} :
          LET out == OutputOfUpdate(store, <<rec>>, sid, OneHot(k, idx))
          IN  last' = [NoCall EXCEPT !.op = "update_reputation",
                                     !.sid = sid, !.idx = idx,
                                     !.before = rec, !.out = out,
                                     !.applied = ~out.isNone,
                                     !.chain = IF rec = last.out
                                               THEN last.chain + 1 ELSE 1]
    /\ UNCHANGED <<cfgVars, updating, store, dropped, reqVars>>

\* the effect of a call of Reputation.clear_reputation
Cleared(out, dropFails) ==
    /\ store' = out.store
    /\ last' = [NoCall EXCEPT !.op = "clear_reputation",
                              !.ret = RInt(out.ret),
                              !.applied = ~dropFails]
    /\ dropped' = dropped \cup {s \in SourceIds :
                                 ~store[s].isNone /\ out.store[s].isNone}

RepClear ==
    /\ \E dropFails \in BOOLEAN :
          Cleared(Reputation_clear_reputation(store, dropFails), dropFails)
    /\ UNCHANGED <<cfgVars, updating, reqVars>>

RepNext ==
    \/ \E sid \in SourceIds : RepGet(sid)
    \/ \E sid \in SourceIds : \E idx \in 0..(k - 1) : RepUpdateStateful(sid, idx)
    \/ \E sid \in SourceIds : \E idx \in 0..(k - 1) : RepUpdateStateless(sid, idx)
    \/ RepClear

SpecRep == RepInit /\ [][RepNext]_vars

\* ------------------------------------------------------------------------
\* Specification Spec: requests served one at a time
\* ------------------------------------------------------------------------
\* requests (GET /clear included) and direct calls made at most
MaxRequests == 1

\* the collection outlives the service: a stateless service may find the
\* record of a source that an earlier stateful one left there
Init ==
    /\ k \in {2, MaxK}
    /\ lf \in LfValues
    /\ statefulEnv \in {"true", "false", "False"}
    /\ dampening = Rat(1, 10)
    /\ influence = Rat(4, 5)
    /\ store \in IF stateful THEN {EmptyStore}
                ELSE {EmptyStore, StoreAfterGet(EmptyStore, "S1")}
    /\ last = NoCall
    /\ dropped = {}
    /\ updating = NoUpdates
    /\ req = IdleRequest
    /\ reply = NoReply
    /\ atStart = EmptyStore
    /\ lastObj = NoObject
    /\ lastReq = NoRequest
    /\ nReq = 0

\* api.consolidate up to the first object of WorkloadManager.run: the
\* check for missing sources compares the text of STATEFUL with "false";
\* run shuffles the objects and, stateless, converts the sources (None is
\* not iterable: TypeError)
ApiConsolidate(objects, sources) ==
    /\ req.pc = "idle"
    /\ nReq < MaxRequests
    /\ nReq' = nReq + 1
    /\ atStart' = store
    /\ lastObj' = NoObject
    /\ lastReq' = [made |-> TRUE, objects |-> objects, sources |-> sources]
    /\ IF ~sources.isList /\ statefulEnv = "false"
       THEN /\ reply' = Reply("returned", 0,
                              "stateless mode requires source information",
                              <<>>, <<>>)
            /\ req' = IdleRequest
       ELSE IF ~stateful /\ ~sources.isList
       THEN /\ reply' = Reply("raised", 500, "TypeError", <<>>, <<>>)
            /\ req' = IdleRequest
       ELSE /\ reply' = NoReply
            /\ req' = [pc |-> "run", objects |-> objects,
                       sources |-> IF stateful THEN sources
                                   ELSE convert_sources(sources),
                       respObjects |-> <<>>, respSources |-> <<>>]
    /\ last' = NoCall
    /\ UNCHANGED <<cfgVars, updating, store, dropped>>

\* WorkloadManager.run after consolidate returned or raised: the result is
\* appended and the updated sources are merged into the response
AfterConsolidate(claims, out, merged, fault) ==
    /\ store' = out.store
    /\ lastObj' = [called |-> TRUE, datatype |-> req.objects[1].datatype,
                   name |-> req.objects[1].name,
                   inputs |-> req.objects[1].claims, claims |-> claims,
                   fault |-> fault,
                   sources |-> req.sources, before |-> store,
                   outcome |-> out]
    /\ IF out.status = "raised"
       THEN /\ reply' = Reply("raised", out.code, out.detail, <<>>, <<>>)
            /\ req' = IdleRequest
       ELSE IF merged.failed
       THEN /\ reply' = Reply("raised", 500, "TypeError", <<>>, <<>>)
            /\ req' = IdleRequest
       ELSE /\ reply' = reply
            /\ req' = [req EXCEPT
                         !.objects = Tail(@),
                         !.respObjects = Append(@, out.response),
                         !.respSources = merged.list]

Consolidated(claims, out, fault) ==
    AfterConsolidate(claims, out, MergeSources(req.respSources, out.updated),
                     fault)

\* WorkloadManager.run: one turn of the loop over the objects
RunObject ==
    /\ req.pc = "run"
    /\ req.objects # <<>>
    /\ \E fault \in IF stateful THEN Faults ELSE {"none"} :
          Consolidated(convert_claims(req.objects[1]),
                       consolidate(store, convert_claims(req.objects[1]),
                                   req.sources, fault),
                       fault)
    /\ UNCHANGED <<cfgVars, updating, last, dropped, atStart, lastReq, nReq>>

\* WorkloadManager.run: the response is serialised and returned
RunFinish ==
    /\ req.pc = "run"
    /\ req.objects = <<>>
    /\ reply' = Reply("ok", 0, "", req.respObjects, req.respSources)
    /\ req' = IdleRequest
    /\ UNCHANGED <<cfgVars, updating, repVars, atStart, lastObj, lastReq, nReq>>

\* the claim lists and source lists of a direct call of Skald.consolidate
Row(form, sid, fact) ==
    [form |-> form, sourceId |-> sid, object |-> <<"color">>, fact |-> fact,
     datatype |-> "categorical"]

DirectClaims ==
    {[isList |-> FALSE, rows |-> <<>>]}
      \cup {[isList |-> TRUE, rows |-> <<Row("ok", "S1", "red"), Row(f, "S2", "blue")>>] :
              f \in {"ok", "notdict", "nosourceId", "noobject", "nofact",
                     "nodatatype", "sidnotstr", "objnotstr"}}

DirectSources ==
    {SourceList(<<SourceRec("S1", Rat(9, 10), [i \in 1..k |-> Rat(1, k)],
                            [i \in 1..k |-> RZero], "float"),
                  SourceRec("S2", Rat(1, 10), [i \in 1..k |-> Rat(1, k)],
                            [i \in 1..k |-> RZero], "float")>>)}

DirectOutcome(claims, sources, out) ==
    /\ store' = out.store
    /\ lastReq' = NoRequest
    /\ lastObj' = [called |-> TRUE, datatype |-> "", name |-> <<>>,
                   inputs |-> <<>>, claims |-> claims, fault |-> "none",
                   sources |-> sources, before |-> store,
                   outcome |-> out]
    /\ reply' = Reply(out.status, out.code, out.detail,
                      <<out.response>>, out.updated)

\* Skald.consolidate called directly
SkaldConsolidate(claims, sources) ==
    /\ req.pc = "idle"
    /\ nReq < MaxRequests
    /\ nReq' = nReq + 1
    /\ atStart' = store
    /\ DirectOutcome(claims, sources,
                     consolidate(store, claims, sources, "none"))
    /\ last' = NoCall
    /\ UNCHANGED <<cfgVars, updating, dropped, req>>

\* Skald.clear_reputation: the value Reputation.clear_reputation returns
\* is discarded and 1 returned; no exception reaches the except clause
Skald_clear_reputation(st, dropFails) ==
    [ret |-> 1, store |-> Reputation_clear_reputation(st, dropFails).store]

\* WorkloadManager.clear_reputation: the value Skald.clear_reputation
\* returns is discarded and 1 returned
WorkloadManager_clear_reputation(st, dropFails) ==
    [ret |-> 1, store |-> Skald_clear_reputation(st, dropFails).store]

\* GET /clear: the value WorkloadManager.clear_reputation returns is the
\* response
ApiCleared(out, dropFails) ==
    /\ Cleared(Reputation_clear_reputation(store, dropFails), dropFails)
    /\ out.store = store'
    /\ reply' = [Reply("cleared", 0, "", <<>>, <<>>) EXCEPT !.result = out.ret]

\* GET /clear; the drop of the collection succeeds or fails
ApiClear ==
    /\ req.pc = "idle"
    /\ \E dropFails \in BOOLEAN :
          ApiCleared(WorkloadManager_clear_reputation(store, dropFails),
                     dropFails)
    /\ nReq < MaxRequests
    /\ nReq' = nReq + 1
    /\ atStart' = store
    /\ lastReq' = NoRequest
    /\ lastObj' = NoObject
    /\ UNCHANGED <<cfgVars, updating, req>>

Next ==
    \/ \E order \in ObjectOrders : \E sources \in RequestSources :
          ApiConsolidate(ObjectList(order), sources)
    \/ RunObject
    \/ RunFinish
    \/ \E claims \in DirectClaims : \E sources \in DirectSources :
          SkaldConsolidate(claims, sources)
    \/ ApiClear

Spec == Init /\ [][Next]_vars

\* ------------------------------------------------------------------------
\* Specification SpecTruth: Skald.consolidate, stateless, on one object with
\* two contradicting categorical claims of two sources, for a grid of
\* dampening factors, influences and supplied reputations
\* ------------------------------------------------------------------------
\* reputations a caller supplies: floats of [0, 1], both ends included
TruthReputations == {RZero, Rat(1, 10), RHalf, Rat(9, 10), ROne}

TruthClaims ==
    {[isList |-> TRUE,
      rows |-> <<Row("ok", "S1", "red"), Row("ok", "S2", "blue")>>],
     [isList |-> TRUE,
      rows |-> <<Row("ok", "S2", "blue"), Row("ok", "S1", "red")>>]}

\* a boolean object as WorkloadManager.convert_claims hands it on: two
\* contradicting claims, in both row orders
ObjActive(first, second) ==
    Object(<<"active">>, "boolean",
           <<Claim(first, first = "S1"), Claim(second, second = "S1")>>)

TruthBooleanClaims ==
    {convert_claims(ObjActive("S1", "S2")),
     convert_claims(ObjActive("S2", "S1"))}

TruthSources(r1, r2) ==
    SourceList(<<SourceRec("S1", r1, [i \in 1..k |-> Rat(1, k)],
                           [i \in 1..k |-> RZero], "float"),
                 SourceRec("S2", r2, [i \in 1..k |-> Rat(1, k)],
                           [i \in 1..k |-> RZero], "float")>>)

\* TruthFinder.__init__ asserts 0 < dampening < 1 and 0 <= influence <= 1
TruthInit ==
    /\ k \in {2, MaxK}
    /\ lf = ROne
    /\ statefulEnv = "false"
    /\ dampening \in {Rat(1, 10), RHalf, Rat(9, 10)}
    /\ influence \in {RZero, RHalf, Rat(4, 5), ROne}
    /\ store = EmptyStore
    /\ last = NoCall
    /\ dropped = {}
    /\ updating = NoUpdates
    /\ req = IdleRequest
    /\ reply = NoReply
    /\ atStart = EmptyStore
    /\ lastObj = NoObject
    /\ lastReq = NoRequest
    /\ nReq = 0

\* a list that holds two records of S1: the second one has a rating at the
\* lowest level
TruthDuplicates(r1, r2) ==
    SourceList(<<SourceRec("S1", r1, [i \in 1..k |-> Rat(1, k)],
                           [i \in 1..k |-> RZero], "float"),
                 SourceRec("S2", RHalf, [i \in 1..k |-> Rat(1, k)],
                           [i \in 1..k |-> RZero], "float"),
                 SourceRec("S1", r2,
                           calculate_score([i \in 1..k |-> RInt(OneHot(k, 0)[i])]),
                           [i \in 1..k |-> RInt(OneHot(k, 0)[i])], "float")>>)

TruthNext ==
    \/ \E claims \in TruthClaims : \E r1, r2 \in TruthReputations :
          SkaldConsolidate(claims, TruthSources(r1, r2))
    \/ \E claims \in TruthBooleanClaims : \E r1, r2 \in {RHalf, Rat(9, 10)} :
          SkaldConsolidate(claims, TruthSources(r1, r2))
    \/ \E claims \in TruthClaims : \E r1, r2 \in {Rat(1, 10), Rat(9, 10)} :
          SkaldConsolidate(claims, TruthDuplicates(r1, r2))

SpecTruth == TruthInit /\ [][TruthNext]_vars

\* ------------------------------------------------------------------------
\* Specification SpecRun: TruthFinder.run called directly
\* ------------------------------------------------------------------------
RunInit ==
    /\ k = 2
    /\ lf = ROne
    /\ statefulEnv = "false"
    /\ dampening \in {Rat(1, 10), RHalf}
    /\ influence \in {RHalf, ROne}
    /\ store = EmptyStore
    /\ last = NoCall
    /\ dropped = {}
    /\ updating = NoUpdates
    /\ req = IdleRequest
    /\ reply = NoReply
    /\ atStart = EmptyStore
    /\ lastObj = NoObject
    /\ lastReq = NoRequest
    /\ nReq = 0

\* iterations asked of TruthFinder.run at most
MaxIterations == 2

\* TruthFinder.run(dataframe, max_iterations, threshold) called on the
\* dataframe of two contradicting categorical claims
RunCalled(df, max_iterations, threshold) ==
    /\ nReq < MaxRequests
    /\ nReq' = nReq + 1
    /\ last' = [NoCall EXCEPT
                  !.op = "run",
                  !.args = <<max_iterations>>,
                  !.threshold = threshold,
                  !.input = df,
                  !.raised = ~IterationDefined(df),
                  !.table = IF IterationDefined(df)
                            THEN TruthFinderRun(df, max_iterations)
                            ELSE <<>>]
    /\ atStart' = store
    /\ lastObj' = NoObject
    /\ reply' = NoReply
    /\ UNCHANGED <<cfgVars, updating, store, dropped, req, lastReq>>

\* the reputations the sources of a run have (at 1 the run raises)
RunReputations == {Rat(1, 10), RHalf, Rat(9, 10), ROne}

TruthFinderCalled ==
    \E claims \in TruthClaims : \E r1, r2 \in RunReputations :
       \E n \in 1..MaxIterations : \E threshold \in {RZero, Rat(1, 10000)} :
          RunCalled(build_dataframe(store, claims, TruthSources(r1, r2)),
                    n, threshold)

RunNext == TruthFinderCalled

SpecRun == RunInit /\ [][RunNext]_vars

\* ------------------------------------------------------------------------
\* Specification SpecImplication: the implication functions of
\* truthfinderV2.py called on facts; a continuous fact is float(fact) of a
\* whole number, a categorical fact a text
\* ------------------------------------------------------------------------
\* largest magnitude of a continuous fact
MaxFact == 5

ContinuousFacts == (0 - MaxFact)..MaxFact

CategoricalFacts == {"red", "blue", "green"}

ImplicationInit ==
    /\ k = 2
    /\ lf = ROne
    /\ statefulEnv = "false"
    /\ dampening = Rat(1, 10)
    /\ influence = Rat(4, 5)
    /\ store = EmptyStore
    /\ last = NoCall
    /\ dropped = {}
    /\ updating = NoUpdates
    /\ req = IdleRequest
    /\ reply = NoReply
    /\ atStart = EmptyStore
    /\ lastObj = NoObject
    /\ lastReq = NoRequest
    /\ nReq = 0

\* continuous_implication(f1, f2): the float division raises
\* ZeroDivisionError when max(f1, f2) is 0
ContinuousImplication(f1, f2) ==
    /\ last' = [NoCall EXCEPT
                  !.op = "continuous_implication",
                  !.args = <<f1, f2>>,
                  !.raised = ~ContinuousDefined(f1, f2),
                  !.ret = IF ContinuousDefined(f1, f2)
                          THEN continuous_implication(f1, f2) ELSE RZero]
    /\ UNCHANGED <<cfgVars, updating, store, dropped, reqVars>>

\* categorical_implication(f1, f2)
CategoricalImplication(f1, f2) ==
    /\ last' = [NoCall EXCEPT
                  !.op = "categorical_implication",
                  !.args = <<f1, f2>>,
                  !.ret = RInt(categorical_implication(f1, f2))]
    /\ UNCHANGED <<cfgVars, updating, store, dropped, reqVars>>

ImplicationNext ==
    \/ \E f1, f2 \in ContinuousFacts : ContinuousImplication(f1, f2)
    \/ \E f1, f2 \in CategoricalFacts : CategoricalImplication(f1, f2)

SpecImplication == ImplicationInit /\ [][ImplicationNext]_vars

\* ------------------------------------------------------------------------
\* Specification SpecRace: stateful requests served at the same time.  The
\* handlers of POST /consolidate are plain functions, which the server
\* runs on a pool of threads; each operation on the collection
\* (find_one_and_update, find_one, update_one) is one step.
\* ------------------------------------------------------------------------
RaceInit ==
    /\ k \in {2, MaxK}
    /\ lf \in LfValues
    /\ statefulEnv = "true"
    /\ dampening = Rat(1, 10)
    /\ influence = Rat(4, 5)
    /\ store = EmptyStore
    /\ updating = NoUpdates
    /\ last = NoCall
    /\ dropped = {}
    /\ req = IdleRequest
    /\ reply = NoReply
    /\ atStart = EmptyStore
    /\ lastObj = NoObject
    /\ lastReq = NoRequest
    /\ nReq = 0

\* get_reputation of a request: find_one_and_update with upsert
RaceGet(p, sid) ==
    /\ updating[p].pc = "idle"
    /\ store[sid].isNone
    /\ store' = StoreAfterGet(store, sid)
    /\ UNCHANGED <<cfgVars, updating, last, dropped, reqVars>>

\* the calls of update_reputation the requests have made
Begun == SumOver(Requests, [p \in Requests |-> updating[p].begun])

\* update_reputation of a request up to find_one: the record it holds
RaceFind(p, sid, idx) ==
    /\ updating[p].pc = "idle"
    /\ Begun < MaxUpdates
    /\ updating' = [updating EXCEPT
                      ![p] = [@ EXCEPT !.pc = "found", !.sid = sid,
                                       !.idx = idx, !.source = store[sid],
                                       !.begun = @ + 1]]
    /\ UNCHANGED <<cfgVars, store, last, dropped, reqVars>>

\* an update that adds the recomputed ratings to the stored ones
update_one_Adding(st, sid, new) ==
    [st EXCEPT ![sid] =
       [new EXCEPT !.ratings =
          [i \in 1..Len(new.ratings) |->
             RAdd(new.ratings[i], st[sid].ratings[i])]]]

\* an update that sets the ratings alone
update_one_RatingsOnly(st, sid, new) ==
    [st EXCEPT ![sid] = [@ EXCEPT !.ratings = new.ratings]]

\* the collection after update_one of the record computed from the one
\* held: $set of ratings, probabilities and reputation at once
update_one(st, sid, new) == [st EXCEPT ![sid] = new]

\* update_reputation of a request from find_one on: the record is
\* recomputed from the one held and written with update_one; an exception
\* (no record found, the casting error of R *= lf) is logged and nothing
\* is written
RaceWrite(p) ==
    /\ updating[p].pc = "found"
    /\ LET u == updating[p]
           new == UpdatedRecord(u.source, OneHot(k, u.idx))
           written == ~new.isNone /\ ~store[u.sid].isNone
       IN  /\ store' = IF written THEN update_one(store, u.sid, new)
                       ELSE store
           /\ updating' = [updating EXCEPT
                             ![p] = [@ EXCEPT
                                       !.pc = "idle",
                                       !.applied = IF written THEN @ + 1
                                                   ELSE @]]
    /\ UNCHANGED <<cfgVars, last, dropped, reqVars>>

RaceNext ==
    \/ \E p \in Requests : \E sid \in SourceIds : RaceGet(p, sid)
    \/ \E p \in Requests : \E sid \in SourceIds : \E idx \in 0..(k - 1) :
          RaceFind(p, sid, idx)
    \/ \E p \in Requests : RaceWrite(p)

SpecRace == RaceInit /\ [][RaceNext]_vars

\* ------------------------------------------------------------------------
\* Claims on the reputation module (checked under SpecRep)
\* ------------------------------------------------------------------------
WellFormed(rec) ==
    /\ Len(rec.probabilities) = k
    /\ Len(rec.ratings) = k
    /\ RSum(rec.probabilities) = ROne
    /\ RLe(RZero, rec.reputation)
    /\ RLe(rec.reputation, ROne)
    /\ \A i \in 1..k : RLe(RZero, rec.ratings[i])

\* C1: for every k >= 2, C = k and lf in (0, 1], every record that
\* update_reputation stores (stateful) or returns (stateless), after any
\* sequence of one-hot ratings on a fresh or caller-supplied record with
\* non-negative ratings of length k, has probabilities that sum to 1 and a
\* reputation in [0, 1].
C1_ScoresSumToOne ==
    /\ \A s \in SourceIds : ~store[s].isNone => WellFormed(store[s])
    /\ ~last.out.isNone => WellFormed(last.out)

\* a second update applied on top of aged, non-integral ratings (lf < 1)
C1_Witness ==
    /\ last.op = "update_reputation" /\ last.applied /\ ~stateful
    /\ RLt(lf, ROne) /\ last.chain = 2 /\ k >= 3
    /\ \E i \in 1..k : last.out.ratings[i][2] > 1

\* C7: in stateful mode get_reputation on a sourceId with no stored record
\* returns 1/2 and leaves for it a record with ratings all zero,
\* probabilities all 1/k and reputation 1/2, after any history of updates
\* and clears.
C7_UnseenSourceDefault ==
    (stateful /\ last.op = "get_reputation" /\ last.before.isNone) =>
        /\ last.ret = <<1, 2>>
        /\ ~store[last.sid].isNone
        /\ store[last.sid].sourceId = last.sid
        /\ store[last.sid].reputation = <<1, 2>>
        /\ store[last.sid].ratings = [i \in 1..k |-> <<0, 1>>]
        /\ store[last.sid].probabilities = [i \in 1..k |-> Rat(1, k)]

\* the source is created again after a clear dropped its record, while
\* another source holds accumulated ratings
C7_Witness ==
    /\ stateful /\ last.op = "get_reputation" /\ last.before.isNone
    /\ last.sid \in dropped
    /\ k >= 3
    /\ \E s \in SourceIds \ {last.sid} :
          ~store[s].isNone /\ RSum(store[s].ratings) = RInt(2)

\* C8 as claimed: with k = 4 and lf = 1/2, an update with the one-hot
\* rating at index 3 turns the ratings [0,0,0,0] of a freshly created record
\* into [0,0,0,1], and a second one turns [0,0,0,1] into [0,0,0,3/2]; both
\* are applied.
C8_AgingApplied ==
    (k = 4 /\ lf = <<1, 2>> /\ last.op = "update_reputation" /\ last.idx = 3
       /\ ~last.before.isNone /\ last.before.dtype = "int") =>
        LET after == IF stateful THEN store[last.sid] ELSE last.out
        IN  /\ last.before.ratings = <<RZero, RZero, RZero, RZero>>
                => after.ratings = <<RZero, RZero, RZero, ROne>>
            /\ last.before.ratings = <<RZero, RZero, RZero, ROne>>
                => after.ratings = <<RZero, RZero, RZero, <<3, 2>>>>

\* ------------------------------------------------------------------------
\* Claims on the consolidation of objects (checked under Spec)
\* ------------------------------------------------------------------------
\* the positions of the rows a source stated
RowsOf(rows, s) == {i \in 1..Len(rows) : rows[i].sourceId = s}

\* the ratings sum of a source before the last object was consolidated:
\* of its stored record (0 when it had none), or of the supplied one
SumBefore(s) ==
    IF stateful
    THEN IF lastObj.before[s].isNone THEN RZero
         ELSE RSum(lastObj.before[s].ratings)
    ELSE RSum(FirstEntry(lastObj.sources.items, s).ratings)

\* C2 as claimed: with lf = 1, a source that appears on N rows of the
\* consolidated object has, in its updated record (the stored one in
\* stateful mode, one returned in the updated sources in stateless mode), a
\* ratings sum N larger than before the object was consolidated.
C2_RatingsFoldedSequentially ==
    (lastObj.called /\ lastObj.outcome.status = "ok" /\ lf = ROne) =>
        \A s \in SourceIds :
           LET N == Cardinality(RowsOf(lastObj.claims.rows, s))
               updated == lastObj.outcome.updated
               after == RAdd(SumBefore(s), RInt(N))
           IN  N > 0 =>
                 IF stateful
                 THEN RSum(lastObj.outcome.store[s].ratings) = after
                 ELSE \E i \in 1..Len(updated) :
                         /\ ~updated[i].isNone
                         /\ updated[i].sourceId = s
                         /\ RSum(updated[i].ratings) = after

\* C3 as claimed: when a request fails because validation rejected one of
\* its objects (status 400), the store is what it was when the request
\* started.
C3_RejectionLeavesStoreUntouched ==
    (reply.status = "raised" /\ reply.code = 400) => store = atStart

\* the claim rows pass validate_input and one of them names a source that
\* the supplied list does not hold
UnknownSource(claims, sources) ==
    /\ validate_input(claims)
    /\ \E i \in 1..Len(claims.rows) :
          \A j \in 1..Len(sources.items) :
             sources.items[j].sourceId # claims.rows[i].sourceId

\* C4: in stateless mode consolidate rejects with 400 "Invalid source
\* format" every object whose claims name a sourceId that is not in the
\* supplied sources list, and returns neither a result nor an updated
\* source for it.
C4_UnknownSourceRejected ==
    (lastObj.called /\ ~stateful
       /\ UnknownSource(lastObj.claims, lastObj.sources)) =>
        /\ lastObj.outcome.status = "raised"
        /\ lastObj.outcome.code = 400
        /\ lastObj.outcome.detail = "Invalid source format"
        /\ lastObj.outcome.response.isNone
        /\ lastObj.outcome.updated = <<>>

\* the second object of a request names a source the list lacks, after a
\* first object whose sources were all supplied
C4_Witness ==
    /\ lastObj.called /\ ~stateful
    /\ UnknownSource(lastObj.claims, lastObj.sources)
    /\ lastReq.made /\ Len(lastReq.objects) = 2
    /\ lastObj.claims.rows[1].object = lastReq.objects[2].name
    /\ ~UnknownSource(convert_claims(lastReq.objects[1]), lastObj.sources)

\* C5 as claimed: a request without sources made to a stateless service
\* fails with status 400 and changes no state.
C5_MissingSourcesRejected ==
    (lastReq.made /\ ~lastReq.sources.isList /\ ~stateful
       /\ req.pc = "idle") =>
        /\ reply.status = "raised"
        /\ reply.code = 400
        /\ store = atStart

\* C6 as claimed: consolidate raises 400 "Invalid input format", and
\* nothing else, when the claims are not a list of records, or a row lacks
\* sourceId, object, fact or datatype, or has a sourceId or object that is
\* not a string.
C6_MalformedClaimsRejected ==
    (lastObj.called
       /\ (~lastObj.claims.isList
             \/ \E i \in 1..Len(lastObj.claims.rows) :
                   lastObj.claims.rows[i].form # "ok")) =>
        /\ lastObj.outcome.status = "raised"
        /\ lastObj.outcome.code = 400
        /\ lastObj.outcome.detail = "Invalid input format"

\* C9 as claimed: the response element of an object that is not an address
\* holds one claim per consolidated row, with the fact, the confidence and
\* the sourceId of that row, in non-increasing order of confidence.
C9_OneRankedClaimPerRow ==
    (lastObj.called /\ lastObj.outcome.status = "ok"
       /\ lastObj.datatype # "address") =>
        LET rows == lastObj.claims.rows
            resp == lastObj.outcome.response
            n == Len(rows)
        IN  /\ ~resp.isNone
            /\ Len(resp.claims) = n
            /\ \E p \in [1..n -> 1..n] :
                  /\ \A a, b \in 1..n : p[a] = p[b] => a = b
                  /\ \A a \in 1..n :
                        /\ resp.claims[a].fact = CoercedFact(rows[p[a]])
                        /\ resp.claims[a].sourceId = rows[p[a]].sourceId
            /\ \A a \in 1..(n - 1) :
                  resp.claims[a].confidence >= resp.claims[a + 1].confidence

\* ------------------------------------------------------------------------
\* Claims on the ranking of contradicting claims (checked under SpecTruth)
\* ------------------------------------------------------------------------
\* the reputation supplied for the source of a row of the last object
SuppliedReputation(i) ==
    LastEntry(lastObj.sources.items, lastObj.claims.rows[i].sourceId).reputation

\* the last object held two categorical rows of different facts, stated by
\* two different sources, row hi by the source of strictly higher reputation
Contradicting(hi, lo) ==
    /\ lastObj.called /\ ~stateful
    /\ Len(lastObj.claims.rows) = 2
    /\ {hi, lo} = {1, 2}
    /\ \A i \in {1, 2} : lastObj.claims.rows[i].datatype = "categorical"
    /\ lastObj.claims.rows[1].fact # lastObj.claims.rows[2].fact
    /\ lastObj.claims.rows[1].sourceId # lastObj.claims.rows[2].sourceId
    /\ RLt(SuppliedReputation(lo), SuppliedReputation(hi))

\* C10 as claimed: for two categorical claims of different facts by two
\* different sources, and every dampening factor in (0, 1) and influence in
\* [0, 1], the fact of the source with the strictly higher reputation gets
\* the strictly higher fact_confidence and is listed first in the response.
C10_HigherReputationRanksFirst ==
    \A hi, lo \in {1, 2} :
       Contradicting(hi, lo) =>
          /\ lastObj.outcome.status = "ok"
          /\ LET result == TruthFinderRun(
                             build_dataframe(lastObj.before, lastObj.claims,
                                             lastObj.sources), 1)
             IN  result[hi].fact_confidence > result[lo].fact_confidence
          /\ lastObj.outcome.response.claims[1].fact
               = lastObj.claims.rows[hi].fact
          /\ lastObj.outcome.response.claims[1].sourceId
               = lastObj.claims.rows[hi].sourceId

\* ------------------------------------------------------------------------
\* Claims on address objects (checked under Spec)
\* ------------------------------------------------------------------------
\* the non-null fields of the address claims that the last consolidation
\* was made for, as pairs <<claim, field>> of positions
PresentFields ==
    {cf \in (1..Len(lastObj.inputs)) \X (1..3) :
        /\ cf[2] <= Len(lastObj.inputs[cf[1]].fact)
        /\ ~lastObj.inputs[cf[1]].fact[cf[2]].isNull}

\* row i is the row of field cf: a string row named name-field, with the
\* source of the claim and the value of the field
RowOfField(cf, i) ==
    LET claim == lastObj.inputs[cf[1]]
        row == lastObj.claims.rows[i]
    IN  /\ row.object = lastObj.name \o <<"-", claim.fact[cf[2]].field>>
        /\ row.sourceId = claim.sourceId
        /\ row.fact = claim.fact[cf[2]].value
        /\ row.datatype = "string"

\* the address object of the last consolidation was normalised into one
\* string row per non-null field
AddressNormalised ==
    LET I == 1..Len(lastObj.claims.rows)
    IN  /\ Cardinality(PresentFields) = Len(lastObj.claims.rows)
        /\ \A cf \in PresentFields : \E i \in I : RowOfField(cf, i)
        /\ \A i \in I : \E cf \in PresentFields : RowOfField(cf, i)

\* the response of the last consolidation is named 'address' and holds one
\* claim, whose fact maps every bare field name to the value that got the
\* highest confidence among the rows of that field
AddressResponse ==
    LET rows == lastObj.claims.rows
        resp == lastObj.outcome.response
        result == TruthFinderRun(
                    build_dataframe(lastObj.before, lastObj.claims,
                                    lastObj.sources), 1)
        names == {lastObj.inputs[cf[1]].fact[cf[2]].field :
                    cf \in PresentFields}
    IN  /\ ~resp.isNone
        /\ resp.name = <<"address">>
        /\ Len(resp.claims) = 1
        /\ Len(resp.claims[1].fact) = Cardinality(names)
        /\ \A f \in names :
              \E e \in 1..Len(resp.claims[1].fact) :
                 /\ resp.claims[1].fact[e][1] = <<f>>
                 /\ \E i \in 1..Len(rows) :
                       /\ rows[i].object = lastObj.name \o <<"-", f>>
                       /\ rows[i].fact = resp.claims[1].fact[e][2]
                       /\ \A j \in 1..Len(rows) :
                             rows[j].object = rows[i].object =>
                                result[i].fact_confidence
                                  >= result[j].fact_confidence

\* C11 as claimed: an address object of any name is normalised into one
\* string row per non-null field, named name-field, and the response
\* element has the name 'address' and a single claim whose fact maps the
\* bare field names to the highest-confidence value of each field.
C11_AddressFlattenedAndReassembled ==
    (lastObj.called /\ lastObj.datatype = "address"
       /\ lastObj.outcome.status = "ok") =>
        (AddressNormalised /\ AddressResponse)

\* ------------------------------------------------------------------------
\* Claims on the merged source list of a response (checked under Spec)
\* ------------------------------------------------------------------------
\* the positions of the records of source s in a list of records
EntriesOf(list, s) == {n \in 1..Len(list) : list[n].sourceId = s}

\* the last record of source s in a list that holds one
LatestOf(list, s) ==
    list[CHOOSE n \in EntriesOf(list, s) : \A m \in EntriesOf(list, s) : m <= n]

\* one more object of the request has been processed by this step
ObjectMerged ==
    /\ req.pc = "run" /\ req'.pc = "run"
    /\ Len(req'.respObjects) = Len(req.respObjects) + 1

\* the merged list after the step: one entry per source at most; the
\* entry of a source that the object updated is the last record the object
\* returned for it, the entry of any other source is the one held before
MergedLatest ==
    \A s \in SourceIds :
       /\ Cardinality(EntriesOf(req'.respSources, s)) <= 1
       /\ IF EntriesOf(lastObj'.outcome.updated, s) # {}
          THEN /\ EntriesOf(req'.respSources, s) # {}
               /\ LatestOf(req'.respSources, s)
                    = LatestOf(lastObj'.outcome.updated, s)
          ELSE /\ Cardinality(EntriesOf(req'.respSources, s))
                    = Cardinality(EntriesOf(req.respSources, s))
               /\ EntriesOf(req.respSources, s) # {} =>
                     LatestOf(req'.respSources, s)
                       = LatestOf(req.respSources, s)

\* C12: after every object processed by WorkloadManager.run the sources
\* list of the response holds at most one entry per sourceId, which is the
\* record returned by the most recently processed object that updated the
\* source, and the response returned carries that list.
C12_MergedSourcesLatestOnly ==
    /\ [][ObjectMerged => MergedLatest]_vars
    /\ [][(req.pc = "run" /\ reply'.status = "ok") =>
             reply'.sources = req.respSources]_vars

\* a response was returned for two objects that both updated source S2,
\* the second one after the list held two entries
C12_Witness ==
    /\ reply.status = "ok"
    /\ lastReq.made /\ Len(lastReq.objects) = 2
    /\ Len(reply.objects) = 2
    /\ Len(reply.sources) = 2
    /\ \A n \in {1, 2} :
          \E c \in 1..Len(lastReq.objects[n].claims) :
             lastReq.objects[n].claims[c].sourceId = "S2"

\* ------------------------------------------------------------------------
\* Claims on GET /clear (checked under Spec)
\* ------------------------------------------------------------------------
\* C13 as claimed: when the service is stateless, clear_reputation returns
\* success and leaves the store untouched: every record stored before the
\* call is still stored after it.
C13_StatelessClearKeepsStore ==
    (reply.status = "cleared" /\ ~stateful) =>
        /\ reply.result = 1
        /\ \A s \in SourceIds : ~atStart[s].isNone => store[s] = atStart[s]

\* C14 as claimed: the clear operation returns 1 only when the stored
\* reputation data was dropped, and -1 whenever dropping the store failed.
C14_ClearReportsFailure ==
    reply.status = "cleared" =>
        /\ reply.result = 1 => last.applied
        /\ ~last.applied => reply.result = -1

\* ------------------------------------------------------------------------
\* Claims on failures of the store (checked under Spec)
\* ------------------------------------------------------------------------
\* the store failed while the last object was consolidated: the input was
\* valid, so that the store was read
StoreFailed ==
    /\ lastObj.called /\ stateful
    /\ lastObj.fault # "none"
    /\ lastObj.claims.rows # <<>>
    /\ lastObj.outcome.code # 400

\* C16 as claimed: when the store fails during get_reputation or during
\* update_reputation, the failure is surfaced as an error: consolidate
\* never returns a response for which a rating was silently not applied.
C16_StoreFailureSurfaced ==
    StoreFailed => lastObj.outcome.status = "raised"

\* ------------------------------------------------------------------------
\* Claims on the stateless mode (checked under Spec)
\* ------------------------------------------------------------------------
\* what consolidate returned or raised, but for the store
Visible(out) == [out EXCEPT !.store = EmptyStore]

\* C17: in stateless mode a consolidate request neither reads nor writes
\* the store: consolidate leaves the store as it found it, returns what it
\* would return on an empty store, and the store is the same before and
\* after the request.
C17_StatelessLeavesStoreAlone ==
    ~stateful =>
        /\ lastObj.called =>
              /\ lastObj.outcome.store = lastObj.before
              /\ Visible(lastObj.outcome)
                   = Visible(consolidate(EmptyStore, lastObj.claims,
                                         lastObj.sources, lastObj.fault))
        /\ reply.status \in {"ok", "raised", "returned"} => store = atStart

\* a stateless request with two objects was answered while the store held
\* the record of a source of the request, which was rated
C17_Witness ==
    /\ ~stateful
    /\ reply.status = "ok" /\ Len(reply.objects) = 2
    /\ lastObj.called /\ lastObj.outcome.status = "ok"
    /\ ~store["S1"].isNone
    /\ \E i \in 1..Len(reply.sources) :
          /\ reply.sources[i].sourceId = "S1"
          /\ reply.sources[i] # store["S1"]

\* ------------------------------------------------------------------------
\* Claims on the implication functions (checked under SpecImplication)
\* ------------------------------------------------------------------------
\* C18 as claimed: continuous_implication returns a value in [-1, 1] for
\* every pair of numbers, negative facts and pairs whose distance exceeds
\* max(f1, f2) included; categorical_implication returns only +1 or -1.
C18_ImplicationWithinUnitRange ==
    /\ (last.op = "continuous_implication" /\ ~last.raised) =>
          (RLe(RInt(-1), last.ret) /\ RLe(last.ret, ROne))
    /\ last.op = "categorical_implication" =>
          (~last.raised /\ last.ret \in {ROne, RInt(-1)})

\* C19 as claimed: continuous_implication returns +1 whenever
\* max(f1, f2) = 0, instead of failing on the division by zero, and +1 for
\* every pair of equal facts.
C19_ZeroMaximumYieldsOne ==
    (last.op = "continuous_implication"
       /\ (Max(last.args[1], last.args[2]) = 0
             \/ last.args[1] = last.args[2])) =>
        (~last.raised /\ last.ret = ROne)

\* ------------------------------------------------------------------------
\* Claims on the trustworthiness that seeds a run (checked under SpecTruth)
\* ------------------------------------------------------------------------
\* the dataframe the last consolidation built
LastDataframe ==
    build_dataframe(lastObj.before, lastObj.claims, lastObj.sources)

\* C20 as claimed: every trustworthiness on which -log(1 - t) is evaluated
\* lies strictly between 0 and 1, the reputation that seeds a row being
\* clamped, so that a supplied reputation of exactly 0 or 1 does not make
\* the run fail.
C20_TrustworthinessStrictlyInside ==
    (lastObj.called /\ lastObj.outcome.code # 400
       /\ DataframeBuilt(lastObj.claims, lastObj.sources)) =>
        /\ \A i \in 1..Len(LastDataframe) :
              /\ RLt(RZero, LastDataframe[i].trustworthiness)
              /\ RLt(LastDataframe[i].trustworthiness, ROne)
        /\ lastObj.outcome.status = "ok"

\* ------------------------------------------------------------------------
\* Claims on boolean facts (checked under SpecTruth)
\* ------------------------------------------------------------------------
\* the last consolidation was made for two contradicting boolean claims
BooleanPair ==
    /\ lastObj.called /\ lastObj.outcome.status = "ok"
    /\ Len(lastObj.claims.rows) = 2
    /\ \A i \in {1, 2} : lastObj.claims.rows[i].datatype = "boolean"
    /\ lastObj.claims.rows[1].fact # lastObj.claims.rows[2].fact

\* the dataframe of the last consolidation with every row categorical
AsCategorical ==
    [i \in 1..Len(LastDataframe) |->
        [LastDataframe[i] EXCEPT !.datatype = "categorical"]]

\* C21 as claimed: for a boolean row every distinct other fact f2 of the
\* object contributes influence * confidence(f2) * (-1) to the adjusted
\* confidence, so that two contradicting boolean claims get the confidence
\* that two contradicting categorical claims get.
C21_BooleanAdjustedAsCategorical ==
    BooleanPair =>
        /\ \A i, j \in {1, 2} :
              i # j =>
                 adjusted_confidence_score(
                     LastDataframe, confidence_score(LastDataframe))[i]
                   = FMulRat(0 - confidence_score(LastDataframe)[j],
                             influence)
                       + confidence_score(LastDataframe)[i]
        /\ \A i \in {1, 2} :
              TruthFinderRun(LastDataframe, 1)[i].fact_confidence
                = TruthFinderRun(AsCategorical, 1)[i].fact_confidence

\* ------------------------------------------------------------------------
\* Claims on the iterations of TruthFinder.run (checked under SpecRun)
\* ------------------------------------------------------------------------
\* drop_duplicates("source")["trustworthiness"]: the trustworthiness of the
\* first row of every source, in row order
PerSource(df) ==
    LET firsts == Ascending({i \in 1..Len(df) :
                               \A h \in 1..(i - 1) : df[h].source # df[i].source})
    IN  [n \in 1..Len(firsts) |-> df[firsts[n]].trustworthiness]

\* calculate_change(t1, t2) < threshold is false: the threshold is 0 and
\* the two vectors are not parallel, so that the cosine is below 1
NotConverged(t1, t2, threshold) ==
    /\ threshold = RZero
    /\ \E i, j \in 1..Len(t1) :
          RMul(t1[i], t2[j]) # RMul(t1[j], t2[i])

\* the dataframe run starts from
Zeroed(df) == [i \in 1..Len(df) |-> [df[i] EXCEPT !.fact_confidence = 0]]

\* run was asked for two iterations on trustworthiness that the first
\* iteration changes by no less than the threshold
TwoIterationsDue ==
    /\ last.op = "run" /\ ~last.raised /\ last.args[1] = 2
    /\ \A i \in 1..Len(last.input) :
          RLt(RZero, last.input[i].trustworthiness)
    /\ NotConverged(PerSource(last.input),
                    PerSource(iteration(Zeroed(last.input))),
                    last.threshold)

\* C22 as claimed: with max_iterations = n > 1 and no convergence, the
\* table run returns is the result of n iterations, each starting from the
\* trustworthiness the previous one produced (here n = 2).
C22_RunIteratesUntilConvergence ==
    TwoIterationsDue =>
        last.table = iteration(iteration(Zeroed(last.input)))


\* ------------------------------------------------------------------------
\* Claims on the stored reputation (checked under SpecRep)
\* ------------------------------------------------------------------------
\* C27: in stateful mode every reputation the store holds, of a fresh
\* record and after any sequence of update_reputation calls with one-hot
\* ratings, lies strictly between 0 and 1, so that -log(1 - t) is defined
\* for the trustworthiness seeded from it
C27_StoredReputationStrictlyInside ==
    stateful =>
       \A s \in SourceIds :
          ~store[s].isNone =>
             /\ RLt(RZero, store[s].reputation)
             /\ RLt(store[s].reputation, ROne)
             /\ TrustScoreDefined(store[s].reputation)

\* a stored record that has taken every rating at the highest level
C27_Witness ==
    /\ stateful
    /\ last.op = "update_reputation" /\ last.applied /\ last.idx = k - 1
    /\ store[last.sid].ratings[k] = RInt(MaxUpdates)

\* ------------------------------------------------------------------------
\* Claims on requests served at the same time (checked under SpecRace)
\* ------------------------------------------------------------------------
\* the update_one's that have written a record
Applied == SumOver(Requests, [p \in Requests |-> updating[p].applied])

\* C23: update_reputation reads the record (find_one) and writes the
\* recomputed one (update_one) in two steps, and under no interleaving of
\* two requests does the sum of the stored ratings grow by more than the
\* number of ratings applied
C23_RatingsGrowByAppliedAtMost ==
    RLe(StoredRatings(store, SourceIds), RInt(Applied))

\* a lost update: with lf = 1 both requests have applied one rating to the
\* same source and the stored ratings sum to 1
C23_Witness ==
    /\ lf = ROne
    /\ \A p \in Requests : updating[p].pc = "idle" /\ updating[p].applied = 1
    /\ updating[1].sid = updating[2].sid
    /\ StoredRatings(store, SourceIds) = RInt(1)

\* C26: under every interleaving every stored record has k ratings and k
\* probabilities, its probabilities are those calculate_score gives for its
\* ratings and its reputation is the point estimate of its probabilities
C26_StoredRecordsConsistent ==
    \A s \in SourceIds :
       ~store[s].isNone =>
          /\ Len(store[s].ratings) = k
          /\ Len(store[s].probabilities) = k
          /\ store[s].probabilities = calculate_score(store[s].ratings)
          /\ store[s].reputation = point_estimate(store[s].probabilities)

\* one request has written a rating of one level over the rating of
\* another level that the other request wrote from the same record
C26_Witness ==
    /\ \A p \in Requests : updating[p].pc = "idle" /\ updating[p].applied = 1
    /\ updating[1].sid = updating[2].sid
    /\ updating[1].idx # updating[2].idx
    /\ updating[1].source = updating[2].source
    /\ RSum(store[updating[1].sid].ratings) = RInt(1)


\* ------------------------------------------------------------------------
\* Claims on the order of the objects of a request (checked under Spec)
\* ------------------------------------------------------------------------
\* the dataframe of a call of consolidate
DataframeOf(obj) == build_dataframe(obj.before, obj.claims, obj.sources)

\* every row of the call was seeded with the reputation that st holds for
\* its source (the default of a new source)
SeededFrom(st, obj) ==
    \A i \in 1..Len(DataframeOf(obj)) :
       DataframeOf(obj)[i].trustworthiness
          = StoreAfterGet(st, DataframeOf(obj)[i].source)
               [DataframeOf(obj)[i].source].reputation

\* the store after the call holds the ratings of its finished TruthFinder
\* run folded into st, and no rating when the run raised
RatedAfterRun(st, obj, after) ==
    IF obj.outcome.status = "ok"
    THEN after = StoreAfterRatings(
                    StoreAfterBuild(st, obj.claims), obj.sources,
                    calculate_ratings(TruthFinderRun(DataframeOf(obj), 1)))
    ELSE StoredRatings(after, SourceIds) = StoredRatings(st, SourceIds)

\* C24: in stateful mode every object of a request is consolidated on the
\* store that the objects before it left: the trustworthiness of each of
\* its rows is the reputation stored after their rating updates, and its
\* own ratings are applied only once TruthFinder has finished on it
C24_ObjectsOneAfterTheOther ==
    [][(/\ stateful
        /\ req.pc = "run" /\ req.objects # <<>>
        /\ lastObj'.fault = "none"
        /\ validate_input(lastObj'.claims))
       => /\ lastObj'.before = store
          /\ SeededFrom(store, lastObj')
          /\ RatedAfterRun(store, lastObj', store')]_vars

\* the second object of a stateful request was consolidated after the
\* ratings of the first had changed the stored reputation of its source
C24_Witness ==
    /\ stateful
    /\ Len(req.respObjects) = 2
    /\ lastObj.called /\ lastObj.fault = "none"
    /\ lastObj.outcome.status = "ok"
    /\ lastObj.before # atStart
    /\ \E i \in 1..Len(LastDataframe) :
          LastDataframe[i].trustworthiness
             # StoreAfterGet(atStart, LastDataframe[i].source)
                  [LastDataframe[i].source].reputation


\* ------------------------------------------------------------------------
\* Claims on the shape of a response element (checked under Spec)
\* ------------------------------------------------------------------------
\* the name of the first row starts with 'address-'
AddressPrefixed ==
    /\ Len(lastObj.claims.rows[1].object) >= 2
    /\ lastObj.claims.rows[1].object[1] = "address"
    /\ lastObj.claims.rows[1].object[2] = "-"

\* the element has the name of the rows and one claim per row
OrdinaryShape ==
    /\ lastObj.outcome.response.shape = "claims"
    /\ lastObj.outcome.response.name = lastObj.claims.rows[1].object
    /\ Len(lastObj.outcome.response.claims) = Len(lastObj.claims.rows)

\* C25 as claimed: the response element has the address shape exactly
\* when the name of the rows starts with 'address-'; rows whose name holds
\* 'address' elsewhere, such as 'email-address', are emitted in the
\* ordinary shape with their own name and one ranked claim per row.
C25_AddressShapeByPrefixOnly ==
    (lastObj.called /\ lastObj.outcome.status = "ok"
       /\ ~lastObj.outcome.response.isNone) =>
        /\ lastObj.outcome.response.shape = "address" <=> AddressPrefixed
        /\ ~AddressPrefixed => OrdinaryShape


\* ------------------------------------------------------------------------
\* Claims on the supplied source records (checked under SpecTruth)
\* ------------------------------------------------------------------------
\* the rating that consolidate gives row i of its last call
LastRating(i) ==
    calculate_ratings(TruthFinderRun(LastDataframe, 1))[i].rating

\* C28 as claimed: stateless, every row is seeded with the reputation of
\* the very record of the supplied list that update_reputation updates
\* for the row's source, also when the list holds two records of one
\* sourceId.
C28_SeedAndBasisAreOneRecord ==
    (~stateful /\ lastObj.called /\ lastObj.outcome.status = "ok") =>
        \A i \in 1..Len(LastDataframe) :
           \E j \in 1..Len(lastObj.sources.items) :
              /\ lastObj.sources.items[j].sourceId = LastDataframe[i].source
              /\ LastDataframe[i].trustworthiness
                   = lastObj.sources.items[j].reputation
              /\ lastObj.outcome.updated[i]
                   = UpdatedRecord(lastObj.sources.items[j], LastRating(i))


\* ------------------------------------------------------------------------
\* Claims on the objects list of a response (checked under Spec)
\* ------------------------------------------------------------------------
\* C29 as claimed: for every object of a request, one without claims and
\* an address whose fields are all null included, WorkloadManager.run fails
\* the request or puts one element {name, claims} into the objects list of
\* the response; the list never holds a null element.
C29_NoNullObjectInResponse ==
    /\ \A n \in 1..Len(req.respObjects) : ~req.respObjects[n].isNone
    /\ reply.status = "ok" =>
          /\ Len(reply.objects) = Len(lastReq.objects)
          /\ \A n \in 1..Len(reply.objects) : ~reply.objects[n].isNone

=============================================================================
